---- MODULE Spec2Model ----
(***************************************************************************)
(* The incremental virtualized-list harvesters of scrape_vvvfast.py and    *)
(* scrape_productsreliable.py, run against a model of the render surface   *)
(* (a table whose rows are rendered as a sliding window, or appended as    *)
(* the scroller reaches its end).                                          *)
(*                                                                         *)
(* Offsets and heights are in pixels; every row is RowPx high.  The        *)
(* attempt ceilings of the two scripts (20000, 100, 500, 50 in the source) *)
(* are parameters of the model with small values, so that a run can reach  *)
(* them; every other number is the source's.                               *)
(***************************************************************************)
EXTENDS Integers, Sequences, FiniteSets, TLC

(* ------------------------------ bounds --------------------------------- *)

\* Largest number of records in the underlying collection.
MaxRows == 5
\* Rows that fit the scroller's viewport.
ViewRows == 2
\* Height of one row, in pixels.
RowPx == 20
\* Rows an append-only surface adds each time its end is reached.
LoadBatch == 2
\* Seconds that pass in one step of the clock.
TickSeconds == 2700
\* Stands for safety_ceiling = 20000 (scrape_vvvfast.py line 72).
safety_ceiling == 8
\* Stands for max_scroll_attempts = 100 (scrape_productsreliable.py line 692).
max_virtual_attempts == 1
\* Stands for max_scroll_attempts = 500 (scrape_productsreliable.py line 758).
max_scroll_attempts == 9
\* Stands for the 50 of "pag_round < 50" (scrape_productsreliable.py line 990).
max_pages == 1

(* ------------------------- program constants --------------------------- *)

\* max_time_minutes = 45
max_time_minutes == 45

(* ------------------------------ helpers -------------------------------- *)

Min(a, b) == IF a < b THEN a ELSE b

Max(a, b) == IF a > b THEN a ELSE b

(* ------------------------- the render surface -------------------------- *)

\* The shapes of collection the harvest is run against.  "distinct": every
\* row has its own first cell.  "mixed": the second row has an empty first
\* cell, the third shares only its first cell with the first, the fourth
\* renders the same text as the first, and the fifth is a rendered row whose
\* cells are all empty.
DataKinds == {"distinct", "mixed"}

MakeRow(kind, i) ==
    CASE kind = "mixed" /\ i = 2 -> <<"", "2">>
      [] kind = "mixed" /\ i = 3 -> <<"1", "y">>
      [] kind = "mixed" /\ i = 4 -> <<"1", "x">>
      [] kind = "mixed" /\ i = 5 -> <<"", "">>
      [] OTHER -> <<ToString(i), "x">>

MakeData(kind, n) == [i \in 1..n |-> MakeRow(kind, i)]

\* The theads a table can have: as many names as the rows have cells, fewer,
\* or a name twice.
TheadKinds == {<<"ID", "Name">>, <<"ID">>, <<"ID", "ID">>}

\* advertTotal when the page shows no "showing X of Y" text.
NoAdvert == -1

VARIABLES
    script,        \* which program runs: "vvvfast" or "reliable"
    data,          \* the underlying collection, a sequence of rows (cell lists)
    mode,          \* "virtual": sliding window; "append": rows are added at the
                   \* end; "paged": one page of rows, replaced by a Next control
    hasThead,      \* the table has a thead row
    theadCells,    \* the texts of its th cells
    containerScrolls, \* the container element is itself the scroller (else an
                   \* ancestor of it is)
    advertTotal,   \* Y of the page's "showing X of Y" text, or NoAdvert
    nextBtn,       \* a visible control matching the "Next" selectors exists
    disabledAttr,  \* the value of its disabled (or aria-disabled) attribute
                   \* while it is disabled: "true", or "" as in <button disabled>
    tablePresent,  \* the table (the container) is in the document
    scrollTop,     \* scroll offset of the scroller
    winLo, winHi,  \* the DOM holds the rows data[winLo+1 .. winHi]
    pc,            \* position of main()
    headers, visible_rows, seen_keys, rows_accum, no_progress_rounds, last_total,
    attempts,
    products, new_products, more, total_count, consecutive_no_change,
    scroll_attempt, pag_round,
    escalated,     \* the keyboard scrolling was tried in the current run of
                   \* passes without change
    clock,         \* seconds since the harvest loop started (start_time)
    output,        \* the written artifact; empty before it is written
    outcome,       \* how the harvest loop was left
    advanced       \* an advance operation (a scroll, a Next click) was performed

page == <<data, mode, hasThead, theadCells, containerScrolls, advertTotal, nextBtn,
          disabledAttr>>

\* The header row of a table that has a thead.
HeaderCells == theadCells
surface == <<page, tablePresent, scrollTop, winLo, winHi>>
fastVars == <<headers, visible_rows, seen_keys, rows_accum, no_progress_rounds,
              last_total, attempts>>
relVars == <<products, new_products, more, total_count, consecutive_no_change,
             scroll_attempt, pag_round, escalated>>
vars == <<script, surface, pc, fastVars, relVars, clock, output, outcome, advanced>>

clientHeight == ViewRows * RowPx

\* scrollHeight of the scroller: the whole collection for a virtualized
\* list, the rows in the document otherwise.
scrollHeight ==
    Max(clientHeight, RowPx * (IF mode = "virtual" THEN Len(data) ELSE winHi - winLo))

maxScroll == scrollHeight - clientHeight

\* The body rows the document holds, in DOM order.
DomRows == [i \in 1..(winHi - winLo) |-> data[winLo + i]]

\* The rows a virtualized list shows at offset o are those that intersect
\* the viewport: data[FirstRowAt(o)+1 .. LastRowAt(o)].
FirstRowAt(o) == o \div RowPx

LastRowAt(o) == Min((o + clientHeight + RowPx - 1) \div RowPx, Len(data))

\* X of the page's "showing X of Y" text: the rows loaded or rendered so far.
ShownCount == winHi

\* The surface catches up with the scroll offset: a virtualized list renders
\* the window at the offset, an append-only list at its end loads a batch.
Render ==
    /\ tablePresent
    /\ pc \notin {"output", "done", "crashed"}
    /\ \/ /\ mode = "virtual"
          /\ <<winLo, winHi>> # <<FirstRowAt(scrollTop), LastRowAt(scrollTop)>>
          /\ winLo' = FirstRowAt(scrollTop)
          /\ winHi' = LastRowAt(scrollTop)
       \/ /\ mode = "append"
          /\ scrollTop >= maxScroll
          /\ winHi < Len(data)
          /\ winLo' = winLo
          /\ winHi' = Min(winHi + LoadBatch, Len(data))
    /\ UNCHANGED <<script, page, tablePresent, scrollTop, pc, fastVars, relVars,
                   clock, output, outcome, advanced>>

\* The table leaves the document.
TableVanish ==
    /\ tablePresent
    /\ pc \notin {"output", "done", "crashed"}
    /\ tablePresent' = FALSE
    /\ UNCHANGED <<script, page, scrollTop, winLo, winHi, pc, fastVars, relVars,
                   clock, output, outcome, advanced>>

\* Variant of the guard that admits one pass more.
FastLoopGuardInclusive == attempts <= safety_ceiling

\* while attempts < safety_ceiling
FastLoopGuard == attempts < safety_ceiling

\* A page operation outside every try block raises: the run ends without
\* reaching the output step.
Crash ==
    /\ \/ script = "vvvfast" /\ pc \in {"headers", "scroll", "settle"}
       \/ script = "vvvfast" /\ pc = "loop" /\ FastLoopGuard
       \/ script = "reliable" /\ pc = "start"
    /\ pc' = "crashed"
    /\ UNCHANGED <<script, surface, fastVars, relVars, clock, output, outcome,
                   advanced>>

(* --------------------------- scrape_vvvfast ---------------------------- *)

\* col_<i>
ColName(i) == "col_" \o ToString(i)

\* headers: the thead cells, else col_1.. for the cells of the first body row.
FastHeaders ==
    /\ script = "vvvfast"
    /\ pc = "headers"
    /\ headers' = IF tablePresent /\ hasThead THEN HeaderCells
                  ELSE IF tablePresent /\ Len(DomRows) > 0
                         THEN [i \in 1..Len(DomRows[1]) |-> ColName(i)]
                         ELSE <<>>
    /\ pc' = "loop"
    /\ UNCHANGED <<script, surface, visible_rows, seen_keys, rows_accum,
                   no_progress_rounds, last_total, attempts, relVars, clock, output,
                   outcome, advanced>>

\* visible_rows: the cells of the rendered body rows, [] without a table.
VisibleRowsFast == IF tablePresent THEN DomRows ELSE <<>>

RECURSIVE JoinCells(_, _)
JoinCells(cells, sep) ==
    IF Len(cells) = 0 THEN ""
    ELSE IF Len(cells) = 1 THEN cells[1]
    ELSE cells[1] \o sep \o JoinCells(Tail(cells), sep)

\* Variant of the key that always joins the cells.
FastKeyJoined(cells) == JoinCells(cells, "|")

\* key = cells[0] if cells and cells[0] else "|".join(cells)
FastKey(cells) ==
    IF Len(cells) > 0 /\ cells[1] # "" THEN cells[1] ELSE JoinCells(cells, "|")

\* Variant of the dedup loop that does not consult seen_keys.
RECURSIVE FastMergeKeepsAll(_, _, _)
FastMergeKeepsAll(rows, seen, accum) ==
    IF Len(rows) = 0 THEN [seen |-> seen, accum |-> accum]
    ELSE LET cells == Head(rows)
             key == FastKey(cells)
         IN IF Len(cells) = 0
              THEN FastMergeKeepsAll(Tail(rows), seen, accum)
              ELSE FastMergeKeepsAll(Tail(rows), seen \cup {key}, Append(accum, cells))

\* The dedup loop over visible_rows: [seen |-> ..., accum |-> ...] afterwards.
RECURSIVE FastMerge(_, _, _)
FastMerge(rows, seen, accum) ==
    IF Len(rows) = 0 THEN [seen |-> seen, accum |-> accum]
    ELSE LET cells == Head(rows)
             key == FastKey(cells)
         IN IF Len(cells) = 0 \/ key \in seen
              THEN FastMerge(Tail(rows), seen, accum)
              ELSE FastMerge(Tail(rows), seen \cup {key}, Append(accum, cells))

\* Variant of the pass whose progress bookkeeping never resets the counter.
FastIterateNoReset ==
    /\ script = "vvvfast"
    /\ pc = "loop"
    /\ FastLoopGuard
    /\ LET m == FastMerge(VisibleRowsFast, seen_keys, rows_accum)
       IN /\ visible_rows' = VisibleRowsFast
          /\ seen_keys' = m.seen
          /\ rows_accum' = m.accum
          /\ last_total' = Max(last_total, Len(m.accum))
    /\ no_progress_rounds' = no_progress_rounds + 1
    /\ attempts' = attempts + 1
    /\ pc' = "scroll"
    /\ UNCHANGED <<script, surface, headers, relVars, clock, output, outcome, advanced>>

\* One pass of the while loop up to the scroll: the guard, the extraction,
\* the merge and the progress bookkeeping.
FastIterate ==
    /\ script = "vvvfast"
    /\ pc = "loop"
    /\ FastLoopGuard
    /\ LET m == FastMerge(VisibleRowsFast, seen_keys, rows_accum)
       IN /\ visible_rows' = VisibleRowsFast
          /\ seen_keys' = m.seen
          /\ rows_accum' = m.accum
          /\ IF Len(m.accum) > last_total
               THEN /\ last_total' = Len(m.accum)
                    /\ no_progress_rounds' = 0
               ELSE /\ last_total' = last_total
                    /\ no_progress_rounds' = no_progress_rounds + 1
    /\ attempts' = attempts + 1
    /\ pc' = "scroll"
    /\ UNCHANGED <<script, surface, headers, relVars, clock, output, outcome, advanced>>

\* Variant of the exit at the ceiling that raises instead of writing.
FastCeilingFails ==
    /\ script = "vvvfast"
    /\ pc = "loop"
    /\ ~FastLoopGuard
    /\ pc' = "crashed"
    /\ outcome' = "exhausted"
    /\ UNCHANGED <<script, surface, fastVars, relVars, clock, output, advanced>>

\* Variant of the exit at the ceiling that starts the loop over.
FastCeilingRestarts ==
    /\ script = "vvvfast"
    /\ pc = "loop"
    /\ ~FastLoopGuard
    /\ pc' = "loop"
    /\ attempts' = 0
    /\ no_progress_rounds' = 0
    /\ UNCHANGED <<script, surface, headers, visible_rows, seen_keys, rows_accum,
                   last_total, relVars, clock, output, outcome, advanced>>

\* The while guard fails: the attempt ceiling is reached.
FastCeiling ==
    /\ script = "vvvfast"
    /\ pc = "loop"
    /\ ~FastLoopGuard
    /\ pc' = "output"
    /\ outcome' = "exhausted"
    /\ UNCHANGED <<script, surface, fastVars, relVars, clock, output, advanced>>

\* The scroll evaluation's result: ok, prev, now, max.
FastScrolled ==
    IF ~tablePresent THEN [ok |-> FALSE, prev |-> 0, now |-> 0, max |-> 0]
    ELSE [ok |-> TRUE, prev |-> scrollTop,
          now |-> Max(0, Min(scrollTop + clientHeight, maxScroll)),
          max |-> maxScroll]

\* Variant of at_bottom that tests the offset read before the scroll.
FastAtBottomBefore(scrolled) == scrolled.ok /\ scrolled.prev >= scrolled.max

\* at_bottom: False unless scrolled is ok, else now >= max.
FastAtBottom(scrolled) == scrolled.ok /\ scrolled.now >= scrolled.max

\* Variant of the test that also passes at the bottom after a scroll that
\* moved ("if we couldn't scroll (or we're at bottom)").
FastUnmovedOrBottom(scrolled) ==
    ~scrolled.ok \/ scrolled.now = scrolled.prev \/ scrolled.now >= scrolled.max

\* not scrolled or not scrolled.get("ok") or scrolled["now"] == scrolled["prev"]
FastUnmoved(scrolled) == ~scrolled.ok \/ scrolled.now = scrolled.prev

\* Whether the loop breaks after the scroll.
FastStop(scrolled) ==
    /\ FastUnmoved(scrolled)
    /\ FastAtBottom(scrolled)
    /\ no_progress_rounds >= 5

\* The scroll of the scroller and the stop decision that follows it.
FastScroll ==
    /\ script = "vvvfast"
    /\ pc = "scroll"
    /\ LET scrolled == FastScrolled
       IN /\ scrollTop' = IF scrolled.ok THEN scrolled.now ELSE scrollTop
          /\ IF FastStop(scrolled)
               THEN pc' = "output" /\ outcome' = "converged"
               ELSE pc' = "settle" /\ outcome' = outcome
    /\ advanced' = TRUE
    /\ UNCHANGED <<script, page, tablePresent, winLo, winHi, fastVars, relVars, clock,
                   output>>

\* page.wait_for_timeout(200)
FastSettle ==
    /\ script = "vvvfast"
    /\ pc = "settle"
    /\ pc' = "loop"
    /\ UNCHANGED <<script, surface, fastVars, relVars, clock, output, outcome, advanced>>

\* dict(zip(headers, row)) if headers else {col_<i+1>: v}: a later pair with
\* the same name replaces an earlier one, and zip stops at the shorter list.
FastRecord(hdrs, row) ==
    LET names == IF Len(hdrs) > 0 THEN hdrs ELSE [i \in 1..Len(row) |-> ColName(i)]
        n == Min(Len(names), Len(row))
        last(k) == CHOOSE i \in 1..n :
                       names[i] = k /\ \A j \in 1..n : names[j] = k => j <= i
    IN [k \in {names[i] : i \in 1..n} |-> row[last(k)]]

\* The JSON document is written.
FastOutput ==
    /\ script = "vvvfast"
    /\ pc = "output"
    /\ output' = [i \in 1..Len(rows_accum) |-> FastRecord(headers, rows_accum[i])]
    /\ pc' = "done"
    /\ UNCHANGED <<script, surface, fastVars, relVars, clock, outcome, advanced>>

(* ----------------------- scrape_productsreliable ----------------------- *)

TAB == "\t"

\* inner_text() of a row element: the cells' texts separated by tabs, as a
\* sequence of tokens (an empty cell contributes no token).
RECURSIVE InnerText(_)
InnerText(cells) ==
    IF Len(cells) = 0 THEN <<>>
    ELSE (IF cells[1] = "" THEN <<>> ELSE <<cells[1]>>)
         \o (IF Len(cells) > 1 THEN <<TAB>> \o InnerText(Tail(cells)) ELSE <<>>)

\* str.strip(): leading and trailing whitespace (tabs) removed.
RECURSIVE Strip(_)
Strip(text) ==
    IF Len(text) = 0 THEN text
    ELSE IF text[1] = TAB THEN Strip(Tail(text))
    ELSE IF text[Len(text)] = TAB THEN Strip(SubSeq(text, 1, Len(text) - 1))
    ELSE text

\* [c.strip() for c in text.split("\t") if c.strip()]
CellsOf(text) == SelectSeq(text, LAMBDA t : t # TAB)

\* The texts of the elements "<container> tr" matches, in DOM order: the
\* thead row, then the body rows; nothing when the container is gone.
RowElements ==
    IF ~tablePresent THEN <<>>
    ELSE (IF hasThead THEN <<HeaderCells>> ELSE <<>>) \o DomRows

\* Variant of the extraction that does not consult seen.
RECURSIVE ExtractRowsUnseen(_, _)
ExtractRowsUnseen(elements, seen) ==
    IF Len(elements) = 0 THEN <<>>
    ELSE LET text == Strip(InnerText(Head(elements)))
         IN IF Len(text) = 0
              THEN ExtractRowsUnseen(Tail(elements), seen)
              ELSE <<[raw |-> text, cells |-> CellsOf(text)]>>
                   \o ExtractRowsUnseen(Tail(elements), seen \cup {text})

\* extract_rows_from_container: the rows of the elements whose stripped text
\* is non-empty and not yet in seen.
RECURSIVE ExtractRows(_, _)
ExtractRows(elements, seen) ==
    IF Len(elements) = 0 THEN <<>>
    ELSE LET text == Strip(InnerText(Head(elements)))
         IN IF Len(text) = 0 \/ text \in seen
              THEN ExtractRows(Tail(elements), seen)
              ELSE <<[raw |-> text, cells |-> CellsOf(text)]>>
                   \o ExtractRows(Tail(elements), seen \cup {text})

\* scroll_container_and_collect: the rows now in the document, seen = set().
Collect == ExtractRows(RowElements, {})

\* Entering the infinite-scroll loop: its counters and start_time are set.
EnterP2 ==
    /\ pc' = "p2head"
    /\ scroll_attempt' = 0
    /\ consecutive_no_change' = 0
    /\ clock' = 0

\* No container is found: an empty document is written and main returns.
RelNoContainer ==
    /\ script = "reliable"
    /\ pc = "start"
    /\ ~tablePresent
    /\ output' = <<>>
    /\ outcome' = "empty"
    /\ pc' = "done"
    /\ UNCHANGED <<script, surface, fastVars, relVars, clock, advanced>>

\* The initial collection and the search for "showing X of Y".
RelStart ==
    /\ script = "reliable"
    /\ pc = "start"
    /\ tablePresent
    /\ products' = Collect
    /\ new_products' = new_products
    /\ more' = more
    /\ total_count' = advertTotal
    /\ IF advertTotal # NoAdvert /\ advertTotal > ShownCount
         THEN pc' = "p1scroll" /\ outcome' = outcome
         ELSE pc' = "paginate" /\ outcome' = "skipped"
    /\ UNCHANGED <<script, surface, fastVars, consecutive_no_change, scroll_attempt,
                   pag_round, escalated, clock, output, advanced>>

\* const scrollAmount = Math.min(clientHeight * 0.8, 500)
P1Amount == Min((clientHeight * 8) \div 10, 500)

\* Virtual-scroll loop: one scroll of the scroller by P1Amount.
RelP1Scroll ==
    /\ script = "reliable"
    /\ pc = "p1scroll"
    /\ scroll_attempt < max_virtual_attempts
    /\ LET now == IF tablePresent THEN Min(scrollTop + P1Amount, maxScroll)
                  ELSE scrollTop
       IN /\ scrollTop' = now
          /\ IF now > scrollTop
               THEN /\ pc' = "p1collect"
                    /\ UNCHANGED <<scroll_attempt, consecutive_no_change, clock>>
               ELSE EnterP2
    /\ advanced' = TRUE
    /\ UNCHANGED <<script, page, tablePresent, winLo, winHi, fastVars, products,
                   new_products, more, total_count, pag_round, escalated, output,
                   outcome>>

\* Virtual-scroll loop: range(max_scroll_attempts) is used up.
RelP1Ceiling ==
    /\ script = "reliable"
    /\ pc = "p1scroll"
    /\ ~(scroll_attempt < max_virtual_attempts)
    /\ EnterP2
    /\ UNCHANGED <<script, surface, fastVars, products, new_products, more,
                   total_count, pag_round, escalated, output, outcome, advanced>>

\* Virtual-scroll loop: the collection after the settle wait.
RelP1Collect ==
    /\ script = "reliable"
    /\ pc = "p1collect"
    /\ new_products' = Collect
    /\ IF Len(new_products') > Len(products)
         THEN /\ products' = new_products'
              /\ scroll_attempt' = scroll_attempt + 1
              /\ pc' = "p1scroll"
              /\ UNCHANGED <<consecutive_no_change, clock>>
         ELSE /\ products' = products
              /\ EnterP2
    /\ UNCHANGED <<script, surface, fastVars, more, total_count, pag_round,
                   escalated, output, outcome, advanced>>

\* Virtual-scroll loop: a page operation raises, the loop is left.
RelP1Fault ==
    /\ script = "reliable"
    /\ \/ pc = "p1scroll" /\ scroll_attempt < max_virtual_attempts
       \/ pc = "p1collect"
    /\ EnterP2
    /\ UNCHANGED <<script, surface, fastVars, products, new_products, more,
                   total_count, pag_round, escalated, output, outcome, advanced>>

\* Leaving the infinite-scroll loop (the elapsed time is not read again).
LeaveP2(how) ==
    /\ pc' = "paginate"
    /\ outcome' = how
    /\ clock' = 0

\* Staying in the infinite-scroll loop.
StayP2 == clock' = clock

\* The next pass of the infinite-scroll loop.
NextP2 ==
    /\ pc' = "p2head"
    /\ scroll_attempt' = scroll_attempt + 1
    /\ outcome' = outcome
    /\ StayP2

TimedOut == clock > max_time_minutes * 60

\* Infinite-scroll loop: range(max_scroll_attempts) is used up.
RelP2Ceiling ==
    /\ script = "reliable"
    /\ pc = "p2head"
    /\ ~(scroll_attempt < max_scroll_attempts)
    /\ LeaveP2("exhausted")
    /\ UNCHANGED <<script, surface, fastVars, relVars, output, advanced>>

\* Infinite-scroll loop: the elapsed time is over the limit.
RelP2Timeout ==
    /\ script = "reliable"
    /\ pc = "p2head"
    /\ scroll_attempt < max_scroll_attempts
    /\ TimedOut
    /\ LeaveP2("exhausted")
    /\ UNCHANGED <<script, surface, fastVars, relVars, output, advanced>>

\* Infinite-scroll loop: the scroller is sent to its end.
RelP2Scroll ==
    /\ script = "reliable"
    /\ pc = "p2head"
    /\ scroll_attempt < max_scroll_attempts
    /\ ~TimedOut
    /\ scrollTop' = IF tablePresent THEN maxScroll ELSE scrollTop
    /\ pc' = "p2wheel"
    /\ advanced' = TRUE
    /\ UNCHANGED <<script, page, tablePresent, winLo, winHi, fastVars, relVars,
                   clock, output, outcome>>

\* Infinite-scroll loop: mouse.wheel(0, 1000) and three times (0, 500) over
\* the container; a failure here is caught on the spot.
RelP2Wheel ==
    /\ script = "reliable"
    /\ pc = "p2wheel"
    /\ scrollTop' = IF tablePresent THEN Min(scrollTop + 1000 + 3 * 500, maxScroll)
                    ELSE scrollTop
    /\ pc' = "p2collect"
    /\ UNCHANGED <<script, page, tablePresent, winLo, winHi, fastVars, relVars,
                   clock, output, outcome, advanced>>

\* Infinite-scroll loop: the collection after the waits, and the bookkeeping.
RelP2Collect ==
    /\ script = "reliable"
    /\ pc = "p2collect"
    /\ new_products' = Collect
    /\ LET grown == Len(new_products') > Len(products)
           count == consecutive_no_change + 1
       IN /\ products' = IF grown THEN new_products' ELSE products
          /\ consecutive_no_change' = IF grown THEN 0 ELSE count
          /\ escalated' = IF grown THEN FALSE ELSE IF count = 5 THEN TRUE ELSE escalated
          /\ IF grown
               THEN /\ IF Len(new_products') >= total_count
                         THEN LeaveP2("converged") /\ scroll_attempt' = scroll_attempt
                         ELSE NextP2
                    /\ scrollTop' = scrollTop
               ELSE IF count = 5
                 THEN \* keyboard End, PageDown
                      /\ NextP2
                      /\ scrollTop' = IF tablePresent THEN maxScroll ELSE scrollTop
               ELSE IF count >= 8
                 THEN /\ pc' = "p2check"
                      /\ UNCHANGED <<scroll_attempt, outcome, scrollTop, clock>>
               ELSE /\ NextP2
                    /\ scrollTop' = scrollTop
    /\ UNCHANGED <<script, page, tablePresent, winLo, winHi, fastVars, more,
                   total_count, pag_round, output, advanced>>

\* return table.scrollTop < (table.scrollHeight - table.clientHeight - 10),
\* table being the container; the page offset is used without a container.
CanScroll ==
    IF tablePresent /\ containerScrolls THEN scrollTop < maxScroll - 10 ELSE FALSE

\* Infinite-scroll loop: after 8 passes without growth, "showing X of Y" is
\* read again and the container's scroll capacity is checked.
RelP2Check ==
    /\ script = "reliable"
    /\ pc = "p2check"
    /\ IF advertTotal # NoAdvert /\ ShownCount >= advertTotal
         THEN LeaveP2("converged")
              /\ UNCHANGED <<scroll_attempt, consecutive_no_change, escalated>>
         ELSE IF ~CanScroll
           THEN LeaveP2("converged")
                /\ UNCHANGED <<scroll_attempt, consecutive_no_change, escalated>>
           ELSE NextP2 /\ consecutive_no_change' = 0 /\ escalated' = FALSE
    /\ UNCHANGED <<script, surface, fastVars, products, new_products, more,
                   total_count, pag_round, output, advanced>>

\* Infinite-scroll loop: a page operation raises; the pass is abandoned and
\* the loop is left after 5 passes counted as without change.
RelP2Fault ==
    /\ script = "reliable"
    /\ \/ pc = "p2head" /\ scroll_attempt < max_scroll_attempts /\ ~TimedOut
       \/ pc \in {"p2collect", "p2check"}
    /\ consecutive_no_change' = consecutive_no_change + 1
    /\ IF consecutive_no_change + 1 >= 5 THEN LeaveP2("errors") /\ scroll_attempt' = scroll_attempt
                                        ELSE NextP2
    /\ UNCHANGED <<script, surface, fastVars, products, new_products, more,
                   total_count, pag_round, escalated, output, advanced>>

\* Time passes in the waits of a loop pass (the settle wait of scrape_vvvfast,
\* the waits before the collection in the infinite-scroll loop).
Tick ==
    /\ \/ script = "vvvfast" /\ pc = "settle"
       \/ script = "reliable" /\ pc = "p2collect"
    /\ clock <= max_time_minutes * 60
    /\ clock' = clock + TickSeconds
    /\ UNCHANGED <<script, surface, pc, fastVars, relVars, output, outcome, advanced>>

\* What try_click_next_pagination finds: no control, a disabled one, or one
\* it can click.  The last page of a paged table disables the control.
NextControl ==
    IF ~nextBtn THEN "absent"
    ELSE IF mode = "paged" /\ winHi >= Len(data) THEN "disabled"
    ELSE "enabled"

\* try_click_next_pagination: what it can do and return.  A control whose
\* attribute reads "true" is reported disabled.  Any other control is
\* clicked: the click of a disabled control either is dispatched (True is
\* returned) or raises once the wait for an enabled element times out (the
\* selectors left are tried and False is returned).
TryClickNext ==
    IF NextControl = "absent" THEN {[clicked |-> FALSE, ret |-> FALSE]}
    ELSE IF NextControl = "disabled" /\ disabledAttr = "true"
      THEN {[clicked |-> FALSE, ret |-> FALSE]}
    ELSE IF NextControl = "disabled"
      THEN {[clicked |-> FALSE, ret |-> FALSE], [clicked |-> TRUE, ret |-> TRUE]}
    ELSE {[clicked |-> TRUE, ret |-> TRUE]}

\* while await try_click_next_pagination(page) and pag_round < 50: the click
\* (a paged table shows its next page), then the test of pag_round.
RelPagClick ==
    /\ script = "reliable"
    /\ pc = "paginate"
    /\ \E r \in TryClickNext :
          /\ IF r.clicked /\ mode = "paged" /\ NextControl = "enabled"
               THEN /\ winLo' = winHi
                    /\ winHi' = Min(winHi + ViewRows, Len(data))
               ELSE UNCHANGED <<winLo, winHi>>
          /\ advanced' = (advanced \/ r.clicked)
          /\ IF r.ret /\ pag_round < max_pages
               THEN pag_round' = pag_round + 1 /\ pc' = "pagcollect"
               ELSE pag_round' = pag_round /\ pc' = "output"
    /\ UNCHANGED <<script, page, tablePresent, scrollTop, fastVars, products,
                   new_products, more, total_count, consecutive_no_change,
                   scroll_attempt, escalated, clock, output, outcome>>

\* for product in more: if product not in products: products.append(product)
RECURSIVE AddNew(_, _)
AddNew(rows, prods) ==
    IF Len(rows) = 0 THEN prods
    ELSE IF \E i \in 1..Len(prods) : prods[i] = Head(rows)
      THEN AddNew(Tail(rows), prods)
      ELSE AddNew(Tail(rows), Append(prods, Head(rows)))

\* Pagination loop: the page's rows are collected and the new ones added.
RelPagCollect ==
    /\ script = "reliable"
    /\ pc = "pagcollect"
    /\ more' = Collect
    /\ products' = AddNew(more', products)
    /\ LET new_products_added == Len(products') - Len(products)
       IN pc' = IF new_products_added = 0 THEN "output" ELSE "paginate"
    /\ UNCHANGED <<script, surface, fastVars, new_products, total_count,
                   consecutive_no_change, scroll_attempt, pag_round, escalated, clock,
                   output, outcome, advanced>>

\* Variant of the output that leaves out the first product (the header row
\* that the report subtracts).
RelOutputSkipsFirst ==
    /\ script = "reliable"
    /\ pc = "output"
    /\ output' = IF Len(products) > 0 THEN Tail(products) ELSE products
    /\ pc' = "done"
    /\ UNCHANGED <<script, surface, fastVars, relVars, clock, outcome, advanced>>

\* json.dump(products, f)
RelOutput ==
    /\ script = "reliable"
    /\ pc = "output"
    /\ output' = products
    /\ pc' = "done"
    /\ UNCHANGED <<script, surface, fastVars, relVars, clock, outcome, advanced>>

(* --------------------------- specification ----------------------------- *)

Init ==
    /\ script \in {"vvvfast", "reliable"}
    /\ \E kind \in DataKinds, n \in 0..MaxRows : data = MakeData(kind, n)
    /\ mode \in {"virtual", "append", "paged"}
    /\ hasThead \in BOOLEAN
    \* scrape_productsreliable reads the thead row as one more row of text
    /\ theadCells \in (IF ~hasThead THEN {<<>>}
                       ELSE IF script = "vvvfast" THEN TheadKinds
                       ELSE {<<"ID", "Name">>})
    \* scrape_vvvfast reads none of the next three
    /\ containerScrolls \in (IF script = "reliable" THEN BOOLEAN ELSE {FALSE})
    /\ advertTotal \in (IF script = "reliable"
                           THEN {NoAdvert, Len(data), Len(data) + 1}
                           ELSE {NoAdvert, Len(data)})
    /\ nextBtn \in (IF script = "reliable" THEN BOOLEAN ELSE {FALSE})
    \* only a paged table ever disables its control
    /\ disabledAttr \in (IF nextBtn /\ mode = "paged" THEN {"true", ""} ELSE {"true"})
    /\ tablePresent = TRUE
    /\ scrollTop = 0
    /\ winLo = 0
    /\ winHi = Min(IF mode = "append" THEN ViewRows + 1 ELSE ViewRows, Len(data))
    /\ pc = IF script = "vvvfast" THEN "headers" ELSE "start"
    /\ headers = <<>>
    /\ seen_keys = {}
    /\ rows_accum = <<>>
    /\ no_progress_rounds = 0
    /\ last_total = 0
    /\ attempts = 0
    /\ visible_rows = <<>>
    /\ products = <<>>
    /\ new_products = <<>>
    /\ more = <<>>
    /\ total_count = NoAdvert
    /\ consecutive_no_change = 0
    /\ scroll_attempt = 0
    /\ pag_round = 0
    /\ escalated = FALSE
    /\ clock = 0
    /\ output = <<>>
    /\ outcome = "running"
    /\ advanced = FALSE

Next ==
    \/ Render
    \/ TableVanish
    \/ Crash
    \/ Tick
    \/ FastHeaders
    \/ FastIterate
    \/ FastCeiling
    \/ FastScroll
    \/ FastSettle
    \/ FastOutput
    \/ RelNoContainer
    \/ RelStart
    \/ RelP1Scroll
    \/ RelP1Ceiling
    \/ RelP1Collect
    \/ RelP1Fault
    \/ RelP2Ceiling
    \/ RelP2Timeout
    \/ RelP2Scroll
    \/ RelP2Wheel
    \/ RelP2Collect
    \/ RelP2Check
    \/ RelP2Fault
    \/ RelPagClick
    \/ RelPagCollect
    \/ RelOutput

Spec == Init /\ [][Next]_vars

\* The steps of main().
Program ==
    \/ Crash
    \/ FastHeaders \/ FastIterate \/ FastCeiling \/ FastScroll \/ FastSettle
    \/ FastOutput
    \/ RelNoContainer \/ RelStart
    \/ RelP1Scroll \/ RelP1Ceiling \/ RelP1Collect \/ RelP1Fault
    \/ RelP2Ceiling \/ RelP2Timeout \/ RelP2Scroll \/ RelP2Wheel \/ RelP2Collect
    \/ RelP2Check \/ RelP2Fault
    \/ RelPagClick \/ RelPagCollect \/ RelOutput

\* main() is one thread of control and every page operation returns or
\* raises: the program takes its next step.  The render surface and the
\* clock are under no obligation.
\* Tables of one size, or empty, with distinct rows and no thead.
InitLive ==
    /\ Init
    /\ ~hasThead
    /\ \E n \in {0, MaxRows - 1} : data = MakeData("distinct", n)

SpecLive == InitLive /\ [][Next]_vars /\ WF_vars(Program)

(* ------------------------------- claims -------------------------------- *)

\* The accumulated record set of the running script.
Ledger == IF script = "vvvfast" THEN rows_accum ELSE products

\* The Record Key under which an entry of the Ledger is deduplicated.
EntryKey(e) == IF script = "vvvfast" THEN FastKey(e) ELSE e.raw

LedgerKeys == {EntryKey(Ledger[i]) : i \in 1..Len(Ledger)}

\* The text a row renders, and the text a Ledger entry was rendered with.
RowText(cells) == Strip(InnerText(cells))

EntryText(e) == IF script = "vvvfast" THEN RowText(e) ELSE e.raw

LedgerTexts == {EntryText(Ledger[i]) : i \in 1..Len(Ledger)}

Range(seq) == {seq[i] : i \in 1..Len(seq)}

\* C1: at every point of a run no two Ledger entries have the same Record
\* Key, so a row rendered again with the same text is counted once.
C1_UniqueKeys ==
    \A i, j \in 1..Len(Ledger) :
        EntryKey(Ledger[i]) = EntryKey(Ledger[j]) => i = j

\* C1 witness: scrape_vvvfast has just extracted, from a window that no longer
\* holds the first row, a row rendering the text of the first row, which is
\* in the Ledger once.
C1_Witness ==
    /\ script = "vvvfast"
    /\ pc = "scroll"
    /\ Len(data) >= 4
    /\ data[4] = data[1]
    /\ winLo >= 1
    /\ \E i \in 1..Len(visible_rows) : visible_rows[i] = data[4]
    /\ Len(rows_accum) >= 1
    /\ rows_accum[1] = data[1]
    /\ Cardinality({i \in 1..Len(rows_accum) : rows_accum[i] = data[1]}) = 1

\* C2: a row once in the accumulated record set stays in it, in every step
\* of either script and in the written output.
C2_NeverRemoved ==
    [][/\ Range(Ledger) \subseteq Range(Ledger')
       /\ (pc' = "done" /\ script = "reliable" => Range(Ledger) \subseteq Range(output'))
       /\ (pc' = "done" /\ script = "vvvfast" => Len(output') = Len(Ledger))]_vars

\* The rows of an extraction, given with their Record Keys, whose key the
\* Ledger did not hold (the first row of each such key).
NewRows(rows, keys) ==
    {i \in 1..Len(rows) :
        /\ keys[i] \notin LedgerKeys
        /\ \A j \in 1..(i - 1) : keys[j] # keys[i]}

\* After a merge: the old Ledger is a prefix of the new one, the rows with a
\* new Record Key follow it in extraction order, and nothing else was added.
MergedInto(rows, keys) ==
    LET new == NewRows(rows, keys)
        added == Len(Ledger') - Len(Ledger)
    IN /\ added = Cardinality(new)
       /\ SubSeq(Ledger', 1, Len(Ledger)) = Ledger
       /\ \A i \in new :
              Ledger'[Len(Ledger) + Cardinality({j \in new : j <= i})] = rows[i]

\* The keys of extracted rows: FastKey in scrape_vvvfast, the stripped text
\* of the row in scrape_productsreliable.
FastKeys(rows) == [i \in 1..Len(rows) |-> FastKey(rows[i])]

RelKeys(rows) == [i \in 1..Len(rows) |-> rows[i].raw]

\* C3: the merge step of every harvest iteration appends to the Ledger, in
\* order, exactly the extracted rows whose Record Key it did not hold, so
\* rows accumulate across successive windows.
C3_MergeAccumulates ==
    [][/\ (FastIterate => MergedInto(visible_rows', FastKeys(visible_rows')))
       /\ (RelP1Collect \/ RelP2Collect => MergedInto(new_products', RelKeys(new_products')))
       /\ (RelPagCollect => MergedInto(more', RelKeys(more')))]_vars

\* The records the render surface can expose: every row of the collection,
\* or the first page of a paged table without a Next control.
Exposable ==
    IF mode = "paged" /\ ~nextBtn THEN 1..Min(ViewRows, Len(data)) ELSE 1..Len(data)

\* C4: when the harvest loop has stopped as CONVERGED and the run is done,
\* the Ledger holds every record the render surface can expose (rows that
\* render the same text count as one record).
C4_ConvergedComplete ==
    (pc = "done" /\ outcome = "converged" /\ tablePresent)
        => \A i \in Exposable : RowText(data[i]) = <<>> \/ RowText(data[i]) \in LedgerTexts

\* C5: whatever the render surface does, a run whose page operations all
\* return leaves its scroll and pagination loops and completes the output
\* step (a run ends otherwise only by an operation that raised).
C5_ReachesOutput == <>(pc = "done" \/ pc = "crashed")

\* C5 witness: a run that rendered nothing new to the end was stopped by its
\* attempt ceiling and completed the output step.
C5_Witness ==
    /\ pc = "done"
    /\ outcome = "exhausted"
    /\ script = "vvvfast"
    /\ ~tablePresent

\* The Target Count is known and the Ledger has reached it.
TargetReached == total_count # NoAdvert /\ Len(products) >= total_count

\* C6: with a known Target Count that the Ledger has reached, no further
\* advance (scroll) is performed.
C6_NoAdvanceAtTarget ==
    [][(RelP1Scroll \/ RelP2Scroll) => ~TargetReached]_vars

\* The infinite-scroll phase of scrape_productsreliable is in a pass.
InP2Pass == pc \in {"p2wheel", "p2collect", "p2check"}

\* C7: no harvest loop runs more passes than its attempt ceiling, and a loop
\* that used up its ceiling stops as exhausted.
C7_AttemptCeiling ==
    /\ attempts <= safety_ceiling
    /\ scroll_attempt <= max_scroll_attempts
    /\ (script = "reliable" /\ InP2Pass => scroll_attempt < max_scroll_attempts)
    /\ (script = "vvvfast" /\ pc = "loop" /\ attempts >= safety_ceiling
            => ENABLED FastCeiling /\ ~ENABLED FastIterate)
    /\ (script = "reliable" /\ pc = "p2head" /\ scroll_attempt >= max_scroll_attempts
            => ENABLED RelP2Ceiling /\ ~ENABLED RelP2Scroll)
    /\ (script = "vvvfast" /\ pc \in {"output", "done"} /\ outcome # "converged"
            => outcome = "exhausted" /\ attempts = safety_ceiling)

\* C7 witness: scrape_vvvfast has used all its attempts and stopped as
\* exhausted.
C7_Witness ==
    /\ script = "vvvfast"
    /\ pc = "output"
    /\ outcome = "exhausted"
    /\ attempts = safety_ceiling
    /\ tablePresent

\* C8: in every harvest loop no advance is performed once the elapsed time
\* is over the wall-clock ceiling.
C8_NoAdvancePastDeadline ==
    [][(FastScroll \/ RelP1Scroll \/ RelP2Scroll) => ~TimedOut]_vars

\* C9: a completed run on a page without an advertised Target Count, whose
\* table holds more rows than its first window, has advanced the render
\* surface.
C9_AdvancesWithoutTarget ==
    (pc = "done" /\ advertTotal = NoAdvert /\ tablePresent /\ Len(data) > winHi)
        => advanced

\* The records the output step writes.
Written ==
    IF script = "vvvfast"
      THEN [i \in 1..Len(rows_accum) |-> FastRecord(headers, rows_accum[i])]
      ELSE products

FaultInLoop ==
    \/ Crash /\ script = "vvvfast" /\ pc \in {"loop", "scroll"}
    \/ RelP1Fault
    \/ RelP2Fault

\* main() is in one of its scroll loops.
InHarvestLoop ==
    pc \in {"loop", "scroll", "settle", "p1scroll", "p1collect",
            "p2head", "p2wheel", "p2collect", "p2check"}

\* C11: a page operation that raises in a pass of a harvest loop leaves the
\* Ledger as it was and the loop goes on with its next pass, however many
\* operations raised before.
C11_FaultIsNoOp ==
    [][FaultInLoop => (Ledger' = Ledger /\ InHarvestLoop')]_vars

\* C12: a run that has ended has written its output artifact; none ends by
\* an exception that leaves main().
C12_EveryEndWrites ==
    pc \in {"done", "crashed"} => pc = "done"

C14_MergeIdempotent ==
    /\ script = "vvvfast" /\ pc = "scroll" =>
          FastMerge(visible_rows, seen_keys, rows_accum)
              = [seen |-> seen_keys, accum |-> rows_accum]
    /\ script = "vvvfast" =>
          LET once == FastMerge(VisibleRowsFast, seen_keys, rows_accum)
          IN FastMerge(VisibleRowsFast, once.seen, once.accum) = once
    /\ script = "reliable" =>
          /\ ExtractRows(RowElements, {Collect[i].raw : i \in 1..Len(Collect)}) = <<>>
          /\ AddNew(Collect, AddNew(Collect, products)) = AddNew(Collect, products)
          /\ (pag_round >= 1 /\ pc \in {"paginate", "output", "done"}
                 => AddNew(more, products) = products)

\* C14 witness: scrape_vvvfast has merged the rows of an unchanged window a
\* second time and its list is as after the first.
C14_Witness ==
    /\ script = "vvvfast"
    /\ pc = "scroll"
    /\ attempts = 2
    /\ no_progress_rounds = 1
    /\ Len(visible_rows) = ViewRows
    /\ rows_accum = visible_rows

C16_OutputInOrder ==
    pc = "done" =>
        /\ Len(output) = Len(Ledger)
        /\ \A i \in 1..Len(Ledger) :
              output[i] = IF script = "vvvfast"
                            THEN FastRecord(headers, rows_accum[i])
                            ELSE products[i]

\* C16 witness: scrape_productsreliable has written the header row and the
\* rows of two pages, in the order collected.
C16_Witness ==
    /\ script = "reliable"
    /\ pc = "done"
    /\ hasThead
    /\ mode = "paged"
    /\ pag_round = 1
    /\ Len(products) > ViewRows + 1
    /\ output = products

\* C17: every field value of a kept row is a value of its output record.
C17_NoFieldLost ==
    (script = "vvvfast" /\ pc = "done") =>
        \A i \in 1..Len(rows_accum) :
            \A c \in 1..Len(rows_accum[i]) :
                \E k \in DOMAIN output[i] : output[i][k] = rows_accum[i][c]

\* A page that never grows: the table stays, all its rows are rendered from
\* the start and there is nothing to scroll.
StaticPage == tablePresent /\ Len(data) <= ViewRows

\* C18: on a page that never grows the harvest loop is left at its attempt
\* ceiling or at its wall-clock ceiling, as exhausted.
C18_StaticPageExhausts ==
    /\ (StaticPage /\ script = "vvvfast" /\ pc \in {"output", "done"})
           => (outcome = "exhausted" /\ attempts = safety_ceiling)
    /\ (StaticPage /\ script = "reliable") => outcome # "converged"

\* C19: Scenario A at the scale of the model: on a table whose rows all fit
\* the viewport, with nothing to scroll, the run makes one pass, ends as
\* converged and writes one record for each row.
C19_ScenarioA ==
    (script = "vvvfast" /\ pc = "done" /\ tablePresent /\ mode = "virtual"
        /\ Len(data) = ViewRows)
        => (attempts = 1 /\ outcome = "converged" /\ Len(output) = Len(data))

\* Scenario B at the scale of the model: the table streamed its MaxRows rows
\* over the first three passes (windows of ViewRows rows, each pass with new
\* rows) and the page advertises that many.
StreamedInThree ==
    /\ script = "vvvfast"
    /\ pc = "scroll"
    /\ advertTotal = MaxRows
    /\ Len(data) = MaxRows
    /\ mode = "virtual"
    /\ attempts = 3
    /\ no_progress_rounds = 0
    /\ Len(rows_accum) = MaxRows

\* C20: Scenario B: when the third pass has brought the last of the
\* advertised rows the loop stops there, with every row once and in the order
\* first seen.
C20_ScenarioB ==
    [][(StreamedInThree /\ FastScroll) => (pc' = "output" /\ rows_accum = data)]_vars


\* The Record Key a row of the collection gets when it is extracted.
RowKey(cells) == IF script = "vvvfast" THEN FastKey(cells) ELSE RowText(cells)

\* The rows the surface showed at the first extraction of a run.
FirstWindow == 1..Min(IF mode = "append" THEN ViewRows + 1 ELSE ViewRows, Len(data))

\* The scroller is at its maximum offset: there is no scroll capacity left.
NoScrollCapacity == tablePresent /\ scrollTop >= maxScroll

\* The decision of a pass whose count of passes without growth has reached
\* the stop threshold (5 in scrape_vvvfast, 8 in scrape_productsreliable)
\* while the surface has no scroll capacity and the advertised target, where
\* it is read, is beyond the rows the surface has.
StagnantAtCeiling ==
    \/ FastScroll /\ no_progress_rounds >= 5 /\ NoScrollCapacity
    \/ RelP2Check /\ NoScrollCapacity /\ total_count > Len(data)

\* C21: Scenario C: with the advertised target out of reach, the stop
\* threshold of passes without growth reached and no scroll capacity, the
\* loop is left as converged, not exhausted, and the Ledger holds the unique
\* rows the surface rendered, those of the first extraction among them.
C21_ScenarioC ==
    [][StagnantAtCeiling
          => /\ outcome' = "converged"
             /\ pc' \in {"output", "paginate"}
             /\ \A i \in FirstWindow :
                    RowText(data[i]) = <<>> \/ RowKey(data[i]) \in LedgerKeys']_vars

\* A step that leaves a harvest loop for lack of progress: the break of
\* scrape_vvvfast after its scroll, the "end of scrollable content" break of
\* scrape_productsreliable.
StagnationExit ==
    \/ FastScroll /\ pc' = "output"
    \/ /\ RelP2Check
       /\ pc' = "paginate"
       /\ ~(advertTotal # NoAdvert /\ ShownCount >= advertTotal)

\* The count of passes without growth has reached the stop threshold.
AtStopThreshold ==
    IF script = "vvvfast" THEN no_progress_rounds >= 5 ELSE consecutive_no_change >= 8

\* The scroller can still be moved forward.
SurfaceCanAdvance == tablePresent /\ scrollTop < maxScroll

\* C22: a harvest loop is left for lack of progress only when the count of
\* passes without growth has reached the stop threshold and the scroller is
\* at its maximum offset, unable to advance further.
C22_StopNeedsBoth ==
    [][StagnationExit => (AtStopThreshold /\ ~SurfaceCanAdvance')]_vars

\* The count of passes without growth of the running script.
NoProgress == IF script = "vvvfast" THEN no_progress_rounds ELSE consecutive_no_change

\* C23: the count of passes without growth goes back to 0 only in a step
\* in which the Ledger grew.
C23_ResetOnlyOnGrowth ==
    [][(NoProgress # 0 /\ NoProgress' = 0) => Len(Ledger') > Len(Ledger)]_vars

\* C24: a harvest loop is left for lack of progress only after the
\* aggressive advance (keyboard End, PageDown) was tried in the same run of
\* passes without growth, at a count below the stop threshold.
C24_EscalatesBeforeExit ==
    [][StagnationExit => escalated]_vars

\* A step in which the advance of a harvest loop is invoked.
AdvanceStep == FastScroll \/ RelP1Scroll \/ RelP2Scroll

\* C25: a pass extracts, merges and decides before it advances: the advance
\* is invoked only in a pass that goes on, so the harvest never stops on the
\* decision of a pass that has invoked the advance after its extraction.
C25_AdvanceOnlyWhenRunning ==
    [][AdvanceStep => pc' \notin {"output", "paginate"}]_vars

\* C26: the pagination phase adds to the accumulated record set the rows
\* whose text it does not hold, stops at a page without a new record, collects
\* no more pages than the page ceiling and, with the ceiling reached, does
\* not turn the table to a further page.
C26_PaginationBounded ==
    [][/\ (RelPagCollect =>
              /\ pag_round <= max_pages
              /\ MergedInto(more', RelKeys(more'))
              /\ (Len(products') = Len(products) => pc' = "output"))
       /\ (RelPagClick /\ pag_round >= max_pages => <<winLo', winHi'>> = <<winLo, winHi>>)]_vars

\* C27: try_click_next_pagination clicks a Next control only when it is
\* visible and not disabled, and returns False without a click when there is
\* no control or the control is disabled, whatever value its disabled
\* attribute has.
C27_ClicksOnlyEnabled ==
    (script = "reliable" /\ pc = "paginate")
        => \A r \in TryClickNext :
               /\ r.clicked => NextControl = "enabled"
               /\ NextControl # "enabled" => (~r.clicked /\ ~r.ret)

\* C28: an advance moves the offset of the scroller forward by one viewport
\* height, capped at the maximum offset: it neither exceeds the maximum nor
\* moves by another amount.
C28_OneViewportPerAdvance ==
    [][(AdvanceStep /\ tablePresent)
          => scrollTop' = Min(scrollTop + clientHeight, maxScroll)]_vars

\* C29: the result of an advance of scrape_vvvfast reports the offset as
\* unchanged exactly when the offset after the scroll is the offset before
\* it, and as at the bottom exactly when the scroll succeeded and the offset
\* after it is the maximum offset; a scroll that finds no table reports no
\* change and is not at the bottom.
C29_AdvanceReport ==
    [][FastScroll =>
          LET scrolled == FastScrolled
          IN /\ FastUnmoved(scrolled) <=> scrollTop' = scrollTop
             /\ FastAtBottom(scrolled) <=> (tablePresent /\ scrollTop' = maxScroll)
             /\ ~tablePresent => (FastUnmoved(scrolled) /\ ~FastAtBottom(scrolled))]_vars

\* C29 witness: the first advance of scrape_vvvfast moved the scroller from 0
\* to its maximum offset, a change that ends at the bottom, and the loop went
\* on.
C29_Witness ==
    /\ script = "vvvfast"
    /\ pc = "settle"
    /\ attempts = 1
    /\ tablePresent
    /\ scrollTop > 0
    /\ scrollTop = maxScroll

\* The row elements an extraction reads, in DOM order: the rendered body
\* rows for scrape_vvvfast, every rendered tr for scrape_productsreliable.
ExtractedFrom == IF script = "vvvfast" THEN VisibleRowsFast ELSE RowElements

\* The positions in the Ledger after a step of the entries the step added.
Entered == {i \in 1..Len(Ledger') : Ledger'[i] \notin Range(Ledger)}

\* C30: every row that enters the Ledger was rendered when it was
\* extracted, has a non-empty full text and fields without surrounding
\* whitespace, and the rows of one extraction enter in DOM order.
C30_EnteredRowsWellFormed ==
    [][/\ \A i \in Entered :
              /\ \E k \in 1..Len(ExtractedFrom) :
                     RowText(ExtractedFrom[k]) = EntryText(Ledger'[i])
              /\ EntryText(Ledger'[i]) # <<>>
              /\ script = "reliable" =>
                     /\ Ledger'[i].raw = Strip(Ledger'[i].raw)
                     /\ \A c \in 1..Len(Ledger'[i].cells) :
                            Ledger'[i].cells[c] \notin {TAB, ""}
       /\ \A i, j \in Entered :
              i < j => \E k, l \in 1..Len(ExtractedFrom) :
                           /\ k < l
                           /\ RowText(ExtractedFrom[k]) = EntryText(Ledger'[i])
                           /\ RowText(ExtractedFrom[l]) = EntryText(Ledger'[j])]_vars

\* The set seen as extract_rows_from_container leaves it: seen.add(text) for
\* every row it returns.
RECURSIVE ExtractSeen(_, _)
ExtractSeen(elements, seen) ==
    IF Len(elements) = 0 THEN seen
    ELSE LET text == Strip(InnerText(Head(elements)))
         IN IF Len(text) = 0 \/ text \in seen
              THEN ExtractSeen(Tail(elements), seen)
              ELSE ExtractSeen(Tail(elements), seen \cup {text})

\* A step that runs the Row Extractor.
ExtractionStep ==
    FastIterate \/ RelStart \/ RelP1Collect \/ RelP2Collect \/ RelPagCollect

\* C31: a call of the Row Extractor changes neither the render surface (the
\* document and the rows it holds) nor the key set passed to it
\* (scrape_productsreliable passes a new empty set on every call).
C31_ExtractorPureRead ==
    [][ExtractionStep =>
          /\ <<page, tablePresent, winLo, winHi>>' = <<page, tablePresent, winLo, winHi>>
          /\ script = "reliable" => ExtractSeen(RowElements, {}) = {}]_vars

\* main() is at a call of the Row Extractor inside a harvest or pagination
\* loop.
AtExtraction ==
    \/ script = "vvvfast" /\ pc = "loop" /\ FastLoopGuard
    \/ script = "reliable" /\ pc \in {"p1collect", "p2collect", "pagcollect"}

\* C32: with the container absent the Row Extractor returns no row, and a
\* call of it never raises: the step taken at an extraction does not end the
\* run, so the next pass can try again.
C32_ExtractorNeverRaises ==
    [][AtExtraction =>
          /\ pc' # "crashed"
          /\ (~tablePresent /\ FastIterate) => visible_rows' = <<>>
          /\ (~tablePresent /\ (RelP1Collect \/ RelP2Collect)) => new_products' = <<>>
          /\ (~tablePresent /\ RelPagCollect) => more' = <<>>]_vars

\* The target the final report of scrape_productsreliable compares with.
ReportTarget == 2849

\* if products and "ID" in str(products[0])
HeaderFirst ==
    /\ Len(products) > 0
    /\ \E t \in 1..Len(products[1].raw) : products[1].raw[t] = "ID"

\* actual_products
ActualProducts == IF HeaderFirst THEN Len(products) - 1 ELSE Len(products)

\* The final report of scrape_productsreliable: the counts, the target, the
\* status line and the completion rate in tenths of a percent ({:.1f}).
RelReport ==
    [collected |-> Len(products),
     actual |-> ActualProducts,
     target |-> ReportTarget,
     status |-> IF ActualProducts >= ReportTarget THEN "SUCCESS: All products collected!"
                ELSE "Completion rate",
     rate |-> (2 * 1000 * ActualProducts + ReportTarget) \div (2 * ReportTarget)]

\* The final report of scrape_vvvfast: "Scraped <n> rows and saved to ...".
FastReport == [status |-> "Scraped", rows |-> Len(rows_accum)]

FinalReport == IF script = "vvvfast" THEN FastReport ELSE RelReport

\* The status lines with which runs that ended as converged finish.
ConvergedStatus ==
    IF script = "vvvfast" THEN {"Scraped"}
    ELSE {"SUCCESS: All products collected!", "Completion rate"}

\* C33: a run whose loop ended by exhaustion of a ceiling finishes with a
\* status that no run ended as converged finishes with.
C33_ExhaustedReportedApart ==
    (pc = "done" /\ outcome = "exhausted") => FinalReport.status \notin ConvergedStatus

\* The collected products that are data records: not the thead row that the
\* selector "tr" matches.
DataRecords ==
    {i \in 1..Len(products) : ~(hasThead /\ products[i].raw = RowText(HeaderCells))}

\* C34: when a Target Count was read from the page, the final report gives
\* the completion rate against that target, and counts as collected the data
\* records only, not a header row.
C34_ReportAgainstTarget ==
    (script = "reliable" /\ pc = "done" /\ total_count # NoAdvert /\ total_count > 0)
        => /\ RelReport.target = total_count
           /\ RelReport.actual = Cardinality(DataRecords)
           /\ RelReport.rate =
                  (2 * 1000 * Cardinality(DataRecords) + total_count) \div (2 * total_count)

\* C35: two extracted rows that differ in a field have different Record
\* Keys and are both kept: after a pass of scrape_vvvfast both are in
\* rows_accum, and a collection of scrape_productsreliable returns both.
C35_DistinctRowsKept ==
    [][/\ FastIterate =>
              \A i, j \in 1..Len(visible_rows') :
                  visible_rows'[i] # visible_rows'[j]
                      => /\ FastKey(visible_rows'[i]) # FastKey(visible_rows'[j])
                         /\ {visible_rows'[i], visible_rows'[j]} \subseteq Range(rows_accum')
       /\ (RelP1Collect \/ RelP2Collect) =>
              \A i, j \in 1..Len(RowElements) :
                  (/\ RowElements[i] # RowElements[j]
                   /\ RowText(RowElements[i]) # <<>>
                   /\ RowText(RowElements[j]) # <<>>)
                      => /\ RowText(RowElements[i]) # RowText(RowElements[j])
                         /\ {RowText(RowElements[i]), RowText(RowElements[j])}
                                \subseteq Range(RelKeys(new_products'))]_vars

C37_TurnedPageCollected ==
    (script = "reliable" /\ pc = "done" /\ mode = "paged" /\ tablePresent)
        => \A i \in (winLo + 1)..winHi :
               RowText(data[i]) = <<>> \/ RowText(data[i]) \in Range(RelKeys(output))

\* C38: in scrape_vvvfast a pass that finds the count of passes without
\* growth at the threshold of 5 and cannot advance the surface (the offset is
\* already at its maximum, or the table is absent and the scroll fails) leaves
\* the loop, without waiting for the attempt ceiling.
C38_StagnationExitsEarly ==
    [][(FastScroll /\ no_progress_rounds >= 5 /\ ~SurfaceCanAdvance) => pc' = "output"]_vars

\* C39: when the infinite-scroll loop of scrape_productsreliable stops because
\* the collection has reached the Target Count, the collection holds at least
\* Target Count data records, a header row taken by the row selector not
\* counted.
C39_TargetMetByDataRecords ==
    [][(RelP2Collect /\ total_count # NoAdvert
          /\ Len(new_products') > Len(products)
          /\ Len(new_products') >= total_count)
        => Cardinality(DataRecords') >= total_count]_vars

====
